---- MODULE Spec2Model ----
(***************************************************************************)
(* A model of sqanti3_filter.py: main() validates its arguments, builds    *)
(* the set of isoform identifiers to keep (ML strategy: by invoking the    *)
(* external R script and reading back its inclusion list; rules strategy:  *)
(* by calling run_rules) and hands that set to filter_files, which writes  *)
(* a filtered copy of every companion file it was given.                   *)
(*                                                                         *)
(* Strings that the program takes apart (the lines of the inclusion list)  *)
(* are sequences of one-character strings.  Paths are tuples of their      *)
(* components; two paths name the same file iff the tuples are equal.      *)
(* Floating-point options are held in hundredths (0.25 is 25).             *)
(***************************************************************************)
EXTENDS Integers, Sequences, FiniteSets, TLC

VARIABLES
    pc,         \* position of the run inside main()
    args,       \* the argparse namespace
    fs,         \* the file system: path -> file content, for existing files
    fs0,        \* the file system as it was in the initial state
    dirs,       \* the directories that exist
    ids,        \* main's local `ids`, {} until a retention set is built
    idsBuilt,   \* how many times a retention set was built in this run
    handed,     \* the ids_to_keep of each call of filter_files, in order
    written,    \* the paths filter_files opened for writing
    extInvoked, \* whether subprocess.call ran the external R script
    stderr,     \* the error messages printed so far
    exc         \* the uncaught exception that ended the run, NoExc otherwise

vars == <<pc, args, fs, fs0, dirs, ids, idsBuilt, handed, written,
          extInvoked, stderr, exc>>

None == "None"      \* Python's None, for an option holding a string
NoPath == <<>>      \* Python's None, for an option holding a path
NoExc == [type |-> "none", what |-> "none"]

---------------------------------------------------------------------------
(* Bounds of the model. *)

MaxRecs == 2      \* records in a companion file
MaxLines == 2     \* lines in the inclusion list
MaxHeader == 1    \* header lines of an alignment file

(* Program constants. *)

IntraprimingMin == 25       \* args.intrapriming < 0.25
IntraprimingMax == 100      \* args.intrapriming > 1.
RunALengthMin == 4          \* args.runAlength < 4
RunALengthMax == 20         \* args.runAlength > 20
PercentTrainingMin == 0     \* args.percent_training < 0
PercentTrainingMax == 100   \* args.percent_training > 1.

---------------------------------------------------------------------------
(* Sequences up to a length. *)

SeqsUpTo(S, n) == UNION {[1..k -> S] : k \in 0..n}

(* Identifiers, file contents, paths. *)

TableSeq == << <<"a">>, <<"b">> >>

TableIds == {TableSeq[k] : k \in DOMAIN TableSeq}

\* The classification table: one row per isoform, the attributes of the
\* module docstring's rules.
Table ==
    [id \in TableIds |->
        IF id = <<"a">>
        THEN [structural_category |-> "FSM",
              intrapriming |-> FALSE, polyA_motif |-> FALSE,
              RTS_stage |-> FALSE, all_canonical |-> FALSE,
              short_read_supported |-> FALSE]
        ELSE [structural_category |-> "NNC",
              intrapriming |-> FALSE, polyA_motif |-> FALSE,
              RTS_stage |-> FALSE, all_canonical |-> TRUE,
              short_read_supported |-> FALSE]]

EmptyFile == [kind |-> "empty", header |-> <<>>, recs |-> <<>>]

\* What a file holds after `header` and `recs` were written to it.
MkFile(kind, header, recs) ==
    IF header = <<>> /\ recs = <<>> THEN EmptyFile
    ELSE [kind |-> kind, header |-> header, recs |-> recs]

TableFile == [kind |-> "table", header |-> <<>>, recs |-> TableSeq]

ClassPath == <<"qc", "sample", "_classification.txt">>

InPath(ext) == <<"in", ext>>

\* The format's suffix left off the name.
OutPathNoSuffix(a, ext) == <<a.dir, a.output, "filtered">>

OutPath(a, ext) == <<a.dir, a.output, "filtered", ext>>

InclusionPath(a) == <<a.dir, a.output, "_inclusion-list.txt">>

Write(fsys, path, content) == (path :> content) @@ fsys

Exists(fsys, path) == path \in DOMAIN fsys

---------------------------------------------------------------------------
(* run_ML: the inclusion list is read back line by line. *)

Whitespace == {" ", "\n"}

RECURSIVE LStrip(_)
LStrip(s) ==
    IF s # <<>> /\ Head(s) \in Whitespace THEN LStrip(Tail(s)) ELSE s

RECURSIVE RStrip(_)
RStrip(s) ==
    IF s # <<>> /\ s[Len(s)] \in Whitespace
    THEN RStrip(SubSeq(s, 1, Len(s) - 1)) ELSE s

\* Leading whitespace only.
StripLeft(s) == LStrip(s)

Strip(s) == RStrip(LStrip(s))

SeqsToKeep(lines) == {Strip(lines[k]) : k \in DOMAIN lines}

\* The lines the external script may write.
Lines == {<<"a", "\n">>, <<" ", "b", "\n">>, <<"x", "\n">>, <<"\n">>, <<"b">>}

InclusionLists == SeqsUpTo(Lines, MaxLines)

---------------------------------------------------------------------------
(* filter_files *)

SelectKept(recs, keep) == SelectSeq(recs, LAMBDA r : r \in keep)

\* The container type of the isoforms file, from its first line.
FafqType(content) ==
    IF content.kind = "fastq" /\ content.recs # <<>> THEN "fastq" ELSE "fasta"

\* open(out, 'w') truncates out; the reader opens the input after that.
FilterInto(w, inp, out, kind, keep) ==
    LET truncated == Write(w.fs, out, EmptyFile)
        src == truncated[inp]
    IN  [fs |-> Write(truncated, out,
                      MkFile(kind, src.header, SelectKept(src.recs, keep))),
         written |-> w.written \cup {out}]

FilterIsoforms(w, a, keep) ==
    IF a.isoforms = NoPath THEN w
    ELSE LET fafq_type == FafqType(w.fs[a.isoforms])
         IN  FilterInto(w, a.isoforms, OutPath(a, fafq_type), fafq_type, keep)

FilterGTF(w, a, keep) ==
    IF a.gtf = NoPath THEN w
    ELSE FilterInto(w, a.gtf, OutPath(a, "gtf"), "gtf", keep)

FilterSAM(w, a, keep) ==
    IF a.sam = NoPath THEN w
    ELSE FilterInto(w, a.sam, OutPath(a, "sam"), "sam", keep)

FilterFAA(w, a, keep) ==
    IF a.faa = NoPath THEN w
    ELSE FilterInto(w, a.faa, OutPath(a, "faa"), "faa", keep)

FilterFiles(w, a, keep) ==
    FilterFAA(FilterSAM(FilterGTF(FilterIsoforms(w, a, keep), a, keep),
                        a, keep), a, keep)

filter_files ==
    /\ pc = "filter_files"
    /\ LET w == FilterFiles([fs |-> fs, written |-> written], args, ids)
       IN  /\ fs' = w.fs
           /\ written' = w.written
    /\ handed' = Append(handed, ids)
    /\ pc' = "done"
    /\ UNCHANGED <<args, fs0, dirs, ids, idsBuilt, extInvoked, stderr, exc>>

---------------------------------------------------------------------------
(* main *)

DoesntExist(path) == [msg |-> "doesn't exist", what |-> path]

IntraprimingRange == [msg |-> "--intrapriming must be between 0.25-1",
                      what |-> <<>>]

RunALengthRange == [msg |-> "--runAlength must be between 4-20", what |-> <<>>]

PercentTrainingRange == [msg |-> "--percent_training must be between 0-1",
                         what |-> <<>>]

AttributeError(name) == [type |-> "AttributeError", what |-> name]

NameError(name) == [type |-> "NameError", what |-> name]

FileNotFoundError(name) == [type |-> "FileNotFoundError", what |-> name]

Missing(fsys, path) == path # NoPath /\ ~Exists(fsys, path)

Exit(message) ==
    /\ stderr' = Append(stderr, message)
    /\ exc' = exc
    /\ pc' = "exited"

Raise(exception) ==
    /\ stderr' = stderr
    /\ exc' = exception
    /\ pc' = "crashed"

Goto(label) ==
    /\ stderr' = stderr
    /\ exc' = exc
    /\ pc' = label

\* Checking presence of files. Common arguments
CheckFiles ==
    /\ pc = "check_files"
    /\ IF ~Exists(fs, args.sqanti_class) THEN Exit(DoesntExist(args.sqanti_class))
       ELSE IF Missing(fs, args.isoforms) THEN Raise(AttributeError("isoform"))
       ELSE IF Missing(fs, args.gtf) THEN Raise(AttributeError("gtf_file"))
       ELSE IF Missing(fs, args.sam) THEN Exit(DoesntExist(args.sam))
       ELSE IF Missing(fs, args.faa) THEN Exit(DoesntExist(args.faa))
       ELSE Goto("check_intrapriming")
    /\ UNCHANGED <<args, fs, fs0, dirs, ids, idsBuilt, handed, written,
                   extInvoked>>

IntraprimingOutOfRange(a) ==
    a.intrapriming < IntraprimingMin \/ a.intrapriming > IntraprimingMax

\* The message is printed; nothing ends the run.
CheckIntrapriming ==
    /\ pc = "check_intrapriming"
    /\ stderr' = IF IntraprimingOutOfRange(args)
                 THEN Append(stderr, IntraprimingRange) ELSE stderr
    /\ pc' = "define_output"
    /\ UNCHANGED <<args, fs, fs0, dirs, ids, idsBuilt, handed, written,
                   extInvoked, exc>>

Dirname(path) == path[1]

\* sqanti_class[rfind("/")+1 : rfind("_classification.txt")]
DefaultOutput(path) == path[2]

\* Define output dir and output name in case it was not defined
DefineOutput ==
    /\ pc = "define_output"
    /\ LET dir == IF args.dir = None THEN Dirname(args.sqanti_class)
                  ELSE args.dir
           output == IF args.output = None THEN DefaultOutput(args.sqanti_class)
                     ELSE args.output
       IN  /\ args' = [args EXCEPT !.dir = dir, !.output = output]
           /\ dirs' = dirs \cup {dir}
    /\ pc' = IF args.subcommand = "ML" THEN "ml_checks" ELSE "rules"
    /\ UNCHANGED <<fs, fs0, ids, idsBuilt, handed, written, extInvoked,
                   stderr, exc>>

PercentTrainingOutOfRange(a) ==
    a.percent_training < PercentTrainingMin
    \/ a.percent_training > PercentTrainingMax

\* Checking presence of files for ML.
MLChecks ==
    /\ pc = "ml_checks"
    /\ IF Missing(fs, args.TP) THEN Exit(DoesntExist(args.TP))
       ELSE IF Missing(fs, args.TN) THEN Exit(DoesntExist(args.TN))
       ELSE IF Missing(fs, args.remove_columns)
            THEN Exit(DoesntExist(args.remove_columns))
       ELSE IF PercentTrainingOutOfRange(args) THEN Exit(PercentTrainingRange)
       ELSE Goto("run_ML")
    /\ UNCHANGED <<args, fs, fs0, dirs, ids, idsBuilt, handed, written,
                   extInvoked>>

\* run_ML up to subprocess.call. The R script is opaque: it writes an
\* inclusion list or it leaves the files as they are, and its exit status
\* is not looked at.
RunMLCall ==
    /\ pc = "run_ML"
    /\ IF Missing(fs, args.TP) THEN Exit(DoesntExist(args.TP)) /\ UNCHANGED <<fs, extInvoked>>
       ELSE IF Missing(fs, args.TN) THEN Exit(DoesntExist(args.TN)) /\ UNCHANGED <<fs, extInvoked>>
       ELSE IF Missing(fs, args.remove_columns)
            THEN Exit(DoesntExist(args.remove_columns)) /\ UNCHANGED <<fs, extInvoked>>
       ELSE /\ Goto("read_inclusion")
            /\ extInvoked' = TRUE
            /\ \/ fs' = fs
               \/ \E lines \in InclusionLists :
                      fs' = Write(fs, InclusionPath(args),
                                  [kind |-> "list", header |-> <<>>,
                                   recs |-> lines])
    /\ UNCHANGED <<args, fs0, dirs, ids, idsBuilt, handed, written>>

\* A list that is not there read as the empty list.
ReadInclusionLenient(fsys, path) ==
    IF Exists(fsys, path)
    THEN [ok |-> TRUE, seqs_to_keep |-> SeqsToKeep(fsys[path].recs)]
    ELSE [ok |-> TRUE, seqs_to_keep |-> {}]

\* seqs_to_keep = set(line.strip() for line in open(inclusion_list))
ReadInclusion(fsys, path) ==
    IF Exists(fsys, path)
    THEN [ok |-> TRUE, seqs_to_keep |-> SeqsToKeep(fsys[path].recs)]
    ELSE [ok |-> FALSE, seqs_to_keep |-> {}]

RunMLRead ==
    /\ pc = "read_inclusion"
    /\ LET r == ReadInclusion(fs, InclusionPath(args))
       IN  IF r.ok
           THEN /\ ids' = r.seqs_to_keep
                /\ idsBuilt' = idsBuilt + 1
                /\ Goto("filter_files")
           ELSE /\ UNCHANGED <<ids, idsBuilt>>
                /\ Raise(FileNotFoundError("inclusion_list"))
    /\ UNCHANGED <<args, fs, fs0, dirs, handed, written, extInvoked>>

RunALengthOutOfRange(a) ==
    a.runAlength < RunALengthMin \/ a.runAlength > RunALengthMax

\* The rules branch. run_rules is neither defined nor imported by the
\* module, so the call raises NameError and filter_files is not reached.
Rules ==
    /\ pc = "rules"
    /\ IF RunALengthOutOfRange(args) THEN Exit(RunALengthRange)
       ELSE Raise(NameError("run_rules"))
    /\ UNCHANGED <<args, fs, fs0, dirs, ids, idsBuilt, handed, written,
                   extInvoked>>

Next ==
    \/ CheckFiles
    \/ CheckIntrapriming
    \/ DefineOutput
    \/ MLChecks
    \/ RunMLCall
    \/ RunMLRead
    \/ filter_files
    \/ Rules

---------------------------------------------------------------------------
(* The runs. *)

\* The records of the companion files of the run whose table is Table.
CompanionFile(kind) ==
    [kind |-> kind,
     header |-> IF kind = "sam" THEN <<"@HD">> ELSE <<>>,
     recs |-> TableSeq]

\* The arguments of one strategy: the subcommand, its own options, and which
\* of the files its options name exist.
SubcommandChoices ==
    {[subcommand |-> "rules", runAlength |-> r, percent_training |-> 80,
      TP |-> NoPath, TN |-> NoPath, remove_columns |-> NoPath, there |-> {}] :
        r \in {RunALengthMin - 1, RunALengthMin, RunALengthMax,
               RunALengthMax + 1}}
    \cup
    {[subcommand |-> "ML", runAlength |-> 6, percent_training |-> t,
      TP |-> NoPath, TN |-> NoPath, remove_columns |-> NoPath, there |-> {}] :
        t \in {80, PercentTrainingMax + 1}}
    \cup
    {[subcommand |-> "ML", runAlength |-> 6, percent_training |-> 80,
      TP |-> InPath("TP"), TN |-> InPath("TN"),
      remove_columns |-> InPath("remove_columns"), there |-> t] :
        t \in {{InPath("TP"), InPath("TN"), InPath("remove_columns")},
               {InPath("TN"), InPath("remove_columns")},
               {InPath("TP"), InPath("remove_columns")},
               {InPath("TP"), InPath("TN")}}}

IntraprimingChoices ==
    {IntraprimingMin - 1, IntraprimingMin, IntraprimingMax,
     IntraprimingMax + 1}

OutputChoices == {[dir |-> None, output |-> None], [dir |-> "d", output |-> "o"]}

\* A companion-file option: not given, a file that exists, a path that does
\* not exist, or a file that sits where this run writes its filtered output.
CompanionChoices == {"none", "in", "missing", "out"}

EffectiveNames(o) ==
    [dir |-> IF o.dir = None THEN Dirname(ClassPath) ELSE o.dir,
     output |-> IF o.output = None THEN DefaultOutput(ClassPath) ELSE o.output]

CompanionPath(choice, o, ext) ==
    CASE choice = "none" -> NoPath
      [] choice = "in" -> InPath(ext)
      [] choice = "missing" -> <<"in", ext, "missing">>
      [] choice = "out" -> OutPath(EffectiveNames(o), ext)

FilesOf(paths, content) == [p \in paths |-> content]

\* An inclusion list an earlier run under the same output names left
\* behind, for a table that held another isoform.
StaleList == [kind |-> "list", header |-> <<>>, recs |-> << <<"x", "\n">> >>]

\* A run of main. Rscript is installed: the module's check of
\* `Rscript --version` has passed before main is called.
Init ==
    \E sub \in SubcommandChoices, ip \in IntraprimingChoices,
       o \in OutputChoices, classThere \in BOOLEAN, stale \in BOOLEAN,
       ci \in CompanionChoices, cg \in CompanionChoices,
       cs \in CompanionChoices, cf \in CompanionChoices :
        LET there(c) == c \in {"in", "out"}
            file(c, ext, kind) ==
                IF there(c)
                THEN FilesOf({CompanionPath(c, o, ext)}, CompanionFile(kind))
                ELSE <<>>
        IN  /\ pc = "check_files"
            /\ args = [subcommand |-> sub.subcommand,
                       sqanti_class |-> ClassPath,
                       isoforms |-> CompanionPath(ci, o, "fasta"),
                       gtf |-> CompanionPath(cg, o, "gtf"),
                       sam |-> CompanionPath(cs, o, "sam"),
                       faa |-> CompanionPath(cf, o, "faa"),
                       dir |-> o.dir, output |-> o.output,
                       intrapriming |-> ip,
                       runAlength |-> sub.runAlength,
                       percent_training |-> sub.percent_training,
                       TP |-> sub.TP, TN |-> sub.TN,
                       remove_columns |-> sub.remove_columns]
            /\ fs = file(ci, "fasta", "fasta") @@ file(cg, "gtf", "gtf")
                    @@ file(cs, "sam", "sam") @@ file(cf, "faa", "faa")
                    @@ FilesOf(sub.there, EmptyFile)
                    @@ (IF classThere THEN FilesOf({ClassPath}, TableFile)
                        ELSE <<>>)
                    @@ (IF stale
                        THEN FilesOf({InclusionPath(EffectiveNames(o))},
                                     StaleList)
                        ELSE <<>>)
            /\ dirs = {"in", Dirname(ClassPath)}
                      \cup (IF stale \/ "out" \in {ci, cg, cs, cf}
                            THEN {EffectiveNames(o).dir} ELSE {})
            /\ fs0 = fs
            /\ ids = {}
            /\ idsBuilt = 0
            /\ handed = <<>>
            /\ written = {}
            /\ extInvoked = FALSE
            /\ stderr = <<>>
            /\ exc = NoExc

Spec == Init /\ [][Next]_vars

---------------------------------------------------------------------------
(* filter_files on its own: called, as main calls it in the ML strategy,   *)
(* with the namespace main has completed, the files it has checked and the *)
(* retention set read from an inclusion list.                              *)

SamHeaders == SeqsUpTo({"@HD"}, MaxHeader)

RecordSeqs == SeqsUpTo(TableIds, MaxRecs)

KeepSets == {SeqsToKeep(l) : l \in InclusionLists}

ListOf(keep) == CHOOSE l \in InclusionLists : SeqsToKeep(l) = keep

ResolvedOutputChoices == {EffectiveNames(o) : o \in OutputChoices}

InitFilter ==
    \E recs \in RecordSeqs, fq \in {"fasta", "fastq"}, h \in SamHeaders,
       keep \in KeepSets, o \in ResolvedOutputChoices,
       ci \in {"none", "in", "out_fasta", "out_fastq"},
       cg \in {"none", "in", "out"}, cs \in {"none", "in", "out"},
       cf \in {"none", "in", "out"} :
        LET path(c, ext) ==
                CASE c = "none" -> NoPath
                  [] c = "in" -> InPath(ext)
                  [] c = "out" -> OutPath(o, ext)
                  [] c = "out_fasta" -> OutPath(o, "fasta")
                  [] c = "out_fastq" -> OutPath(o, "fastq")
            file(c, ext, content) ==
                IF c = "none" THEN <<>>
                ELSE FilesOf({path(c, ext)}, content)
        IN  /\ pc = "filter_files"
            /\ args = [subcommand |-> "ML",
                       sqanti_class |-> ClassPath,
                       isoforms |-> path(ci, "fasta"),
                       gtf |-> path(cg, "gtf"),
                       sam |-> path(cs, "sam"),
                       faa |-> path(cf, "faa"),
                       dir |-> o.dir, output |-> o.output,
                       intrapriming |-> 60,
                       runAlength |-> 6,
                       percent_training |-> 80,
                       TP |-> NoPath, TN |-> NoPath,
                       remove_columns |-> NoPath]
            /\ fs = file(ci, "fasta", MkFile(fq, <<>>, recs))
                    @@ file(cg, "gtf", MkFile("gtf", <<>>, recs))
                    @@ file(cs, "sam", MkFile("sam", h, recs))
                    @@ file(cf, "faa", MkFile("faa", <<>>, recs))
                    @@ FilesOf({InclusionPath(o)},
                               [kind |-> "list", header |-> <<>>,
                                recs |-> ListOf(keep)])
                    @@ FilesOf({ClassPath}, TableFile)
            /\ dirs = {"in", Dirname(ClassPath), o.dir}
            /\ fs0 = fs
            /\ ids = keep
            /\ idsBuilt = 1
            /\ handed = <<>>
            /\ written = {}
            /\ extInvoked = TRUE
            /\ stderr = <<>>
            /\ exc = NoExc

NextFilter == filter_files

SpecFilter == InitFilter /\ [][NextFilter]_vars

---------------------------------------------------------------------------
(* The claims. *)

Over == pc \in {"done", "exited", "crashed"}

CompanionOptions == {"isoforms", "gtf", "sam", "faa"}

\* The arguments, as given, pass every check the program documents.
ArgumentsValid ==
    /\ Exists(fs0, args.sqanti_class)
    /\ \A opt \in CompanionOptions : ~Missing(fs0, args[opt])
    /\ ~IntraprimingOutOfRange(args)
    /\ ~RunALengthOutOfRange(args)

\* The identifier is in a retention set handed to filter_files.
Retained(id) == \E k \in DOMAIN handed : id \in handed[k]

NoUnrescuedIntrapriming(r) == ~r.intrapriming \/ r.polyA_motif

JunctionSupport(r) == r.all_canonical \/ r.short_read_supported

\* C1: in a finished run of the rules strategy on valid arguments, a record
\* of category FSM, ISM or NIC is in the retention set handed to
\* filter_files iff it is not intrapriming or has a polyA motif.
C1_RulesKeepFsmIsmNic ==
    (args.subcommand = "rules" /\ Over /\ ArgumentsValid) =>
        \A id \in TableIds :
            Table[id].structural_category \in {"FSM", "ISM", "NIC"} =>
                (Retained(id) <=> NoUnrescuedIntrapriming(Table[id]))

\* C2: in a finished run of the rules strategy on valid arguments, a record
\* of category NNC, antisense, intergenic or genic is in the retention set
\* handed to filter_files iff it has no unrescued intrapriming, is not
\* RT-switching and has junction support, all three together.
C2_RulesKeepNncAndLowConfidence ==
    (args.subcommand = "rules" /\ Over /\ ArgumentsValid) =>
        \A id \in TableIds :
            Table[id].structural_category
                \in {"NNC", "antisense", "intergenic", "genic"} =>
                (Retained(id) <=>
                    /\ NoUnrescuedIntrapriming(Table[id])
                    /\ ~Table[id].RTS_stage
                    /\ JunctionSupport(Table[id]))

\* The output file of a companion option, named from the file the run was
\* given.
OutputOf(opt) ==
    <<args.dir, args.output, "filtered",
      IF opt = "isoforms" THEN FafqType(fs0[args.isoforms]) ELSE opt>>

\* C3: once filter_files has returned in a run on valid arguments, the
\* records of every filtered output are the records the given input file
\* held, restricted to the retention set, in the input's order.
C3_OutputIsInputRestricted ==
    (pc = "done" /\ ArgumentsValid) =>
        \A opt \in CompanionOptions :
            args[opt] # NoPath =>
                /\ Exists(fs, OutputOf(opt))
                /\ fs[OutputOf(opt)].recs
                       = SelectSeq(fs0[args[opt]].recs,
                                   LAMBDA r : r \in handed[1])

\* C4: with an intrapriming threshold outside [0.25, 1.0] the run stops at
\* the check: the external subsystem is never invoked, no retention set is
\* built and filter_files writes nothing.
C4_OutOfRangeThresholdIsFatal ==
    IntraprimingOutOfRange(args) =>
        /\ ~extInvoked
        /\ idsBuilt = 0
        /\ handed = <<>>
        /\ written = {}

\* The companion options in the order main checks them.
CheckedBefore(opt) ==
    CASE opt = "isoforms" -> {}
      [] opt = "gtf" -> {"isoforms"}
      [] opt = "sam" -> {"isoforms", "gtf"}
      [] opt = "faa" -> {"isoforms", "gtf", "sam"}

\* C5: when a companion option names a path that does not exist (and the
\* options checked before it are fine), the run ends with the error message
\* that reports that path, before a retention set is built and before any
\* output is written.
C5_MissingCompanionFileReported ==
    \A opt \in CompanionOptions :
        (/\ pc # "check_files"
         /\ Exists(fs0, args.sqanti_class)
         /\ Missing(fs0, args[opt])
         /\ \A other \in CheckedBefore(opt) : ~Missing(fs0, args[other])) =>
            /\ pc = "exited"
            /\ stderr = <<DoesntExist(args[opt])>>
            /\ exc = NoExc
            /\ idsBuilt = 0
            /\ written = {}

\* C6: in the ML strategy, when the external subsystem has been invoked and
\* the inclusion list does not exist, the run ends in the file-not-found
\* error for the inclusion list, filter_files is never called and no file
\* is written.
C6_MissingInclusionListIsFatal ==
    (/\ args.subcommand = "ML"
     /\ extInvoked
     /\ pc # "read_inclusion"
     /\ ~Exists(fs, InclusionPath(args))) =>
        /\ pc = "crashed"
        /\ exc = FileNotFoundError("inclusion_list")
        /\ idsBuilt = 0
        /\ handed = <<>>
        /\ written = {}
        /\ fs = fs0

C6_Witness ==
    /\ args.subcommand = "ML"
    /\ extInvoked
    /\ ~Exists(fs, InclusionPath(args))
    /\ pc = "crashed"
    /\ args.sam # NoPath

\* C7 as stated: the retention set handed to filter_files is a subset of the
\* identifiers of the classification table and was built exactly once.
C7_RetentionSetWithinTable ==
    handed # <<>> =>
        /\ idsBuilt = 1
        /\ \A k \in DOMAIN handed : handed[k] \subseteq TableIds

\* `id` is `line` without the whitespace at its two ends.
IsStripped(id, line) ==
    /\ id = <<>> \/ (id[1] \notin Whitespace /\ id[Len(id)] \notin Whitespace)
    /\ \E i \in 0..Len(line) :
           /\ i + Len(id) <= Len(line)
           /\ \A k \in 1..Len(line) :
                  IF k > i /\ k <= i + Len(id) THEN line[k] = id[k - i]
                  ELSE line[k] \in Whitespace

\* C7, amended: a retention set is built at most once in a run, and when
\* filter_files is called it is called once, with the set that was built
\* once before the call; that set holds exactly the lines of the inclusion
\* list with the whitespace at their ends removed, whether or not they are
\* identifiers of the classification table.
C7_RetentionSetIsTheInclusionList ==
    /\ idsBuilt <= 1
    /\ handed # <<>> =>
           /\ idsBuilt = 1
           /\ Len(handed) = 1
           /\ handed[1] = ids
           /\ LET lines == fs[InclusionPath(args)].recs
              IN  /\ \A id \in handed[1] :
                         \E k \in DOMAIN lines : IsStripped(id, lines[k])
                  /\ \A k \in DOMAIN lines :
                         \E id \in handed[1] : IsStripped(id, lines[k])

C7_Witness ==
    /\ pc = "done"
    /\ handed # <<>>
    /\ <<"x">> \in handed[1]
    /\ <<"b">> \in handed[1]

\* C8: once filter_files has returned in a run on valid arguments, every
\* companion file it was given holds what it held before the run.
C8_InputsUnchanged ==
    (pc = "done" /\ ArgumentsValid) =>
        \A opt \in CompanionOptions :
            args[opt] # NoPath =>
                /\ Exists(fs, args[opt])
                /\ fs[args[opt]] = fs0[args[opt]]

\* C9: once filter_files has returned in a run on valid arguments that was
\* given an alignment file, the filtered alignment file starts with the
\* header block of the given file.
C9_SamHeaderCopied ==
    (pc = "done" /\ ArgumentsValid /\ args.sam # NoPath) =>
        /\ Exists(fs, OutputOf("sam"))
        /\ fs[OutputOf("sam")].header = fs0[args.sam].header

\* C10: once filter_files has returned, it has raised nothing and has
\* written exactly the files <dir>/<output>.filtered.<suffix> of the
\* companion options that were given: gtf, sam and faa for those options,
\* one of fasta and fastq for the isoforms option; every other file is as
\* it was, and with no option given the file system is as it was.
C10_OneOutputPerGivenOption ==
    pc = "done" =>
        LET name(ext) == <<args.dir, args.output, "filtered", ext>>
            given == {opt \in CompanionOptions : args[opt] # NoPath}
        IN  /\ exc = NoExc
            /\ \A ext \in {"gtf", "sam", "faa"} :
                   name(ext) \in written <=> ext \in given
            /\ Cardinality({name("fasta"), name("fastq")} \cap written)
                   = IF "isoforms" \in given THEN 1 ELSE 0
            /\ Cardinality(written) = Cardinality(given)
            /\ DOMAIN fs = DOMAIN fs0 \cup written
            /\ \A p \in DOMAIN fs0 \ written : fs[p] = fs0[p]
            /\ given = {} => fs = fs0

C10_Witness ==
    /\ pc = "done"
    /\ \A opt \in CompanionOptions : args[opt] # NoPath
    /\ <<args.dir, args.output, "filtered", "fastq">> \in written
    /\ Cardinality(written) = 4

====
